---- MODULE Spec2Model ----
(***************************************************************************)
(* Model of the concurrent handshake engine of btc-handshake:              *)
(* perform_btc_handshake (src/src/chain.rs) with its three spawned tasks   *)
(* (event chain recorder, message writer, message reader), the dispatch    *)
(* tasks running handle_message, the capacity-1 broadcast shutdown         *)
(* channel, the two unbounded mpsc queues, and perform_handshake / main    *)
(* (src/src/main.rs) with the Display impls of src/src/types.rs.           *)
(***************************************************************************)
EXTENDS Integers, Sequences, FiniteSets, TLC

\* chain.rs:27-28
EXPECTED_HANDSHAKE_MESSAGES == 4
TIMEOUT_MILLISEC == 1000
\* broadcast::channel::<usize>(1), chain.rs:32
BROADCAST_CAPACITY == 1

\* Bounds of the model.
MaxPeerMsgs == 2
TickMillis == 1000
MaxTicks == 1

VARIABLES
    orch,        \* position of perform_btc_handshake / main
    result,      \* Result<EventChain, HSError> of perform_btc_handshake
    joined,      \* the try_join! of chain.rs:147-148 has completed
    exit_code,   \* process exit code ("none" while running)
    output,      \* the line main prints
    now,         \* monotonic clock, milliseconds since the run started
    deadline,    \* expiry of the sleep of the trigger race
    ctrlc,       \* state of the signal::ctrl_c() listener
    sigint,      \* what became of the operator's interrupt
    intr_at,     \* orchestrator position at which the interrupt was delivered
    script,      \* everything the peer sends in this run
    peer_end,    \* how the peer's byte stream ends
    stream,      \* messages of the peer not yet read
    bc_tail,     \* number of values sent on the broadcast channel
    bc_next,     \* per receiver: next position to receive, -1 = no receiver
    fired,       \* who broadcast the shutdown signal, in order
    ev_q,        \* unbounded event queue (ev_tx -> ev_rx)
    msg_q,       \* unbounded outbound message queue (msg_tx -> msg_rx)
    chain,       \* EventChain.events of the recorder
    complete,    \* EventChain.complete
    rec,         \* recorder task: "running" or its result
    wr,          \* writer task: "unspawned", "running" or its result
    wr_cur,      \* message the writer is writing ("none" when in select!)
    wr_shutdowns,\* number of tx_stream.shutdown() calls
    written,     \* messages whose write_all has returned Ok, in order
    rd,          \* reader task: "unspawned", "running", "joining" or result
    handles,     \* the spawned handle_message tasks, in spawn order
    fr_pc,       \* MessageReader::read_message: "off", "idle", "parse", "read"
    fr_buf,      \* MessageReader.buffer, a sequence of bytes
    fr_wire,     \* bytes the peer has sent and the stream has not delivered
    fr_sent,     \* all bytes the peer sends before the stream ends
    fr_msgs,     \* the messages the peer serialized
    fr_closes,   \* the peer closes the stream after its last byte
    fr_out,      \* messages returned by read_message so far, in order
    fr_res,      \* outcome of the last read_message call that returned
    fr_partial   \* some parse attempt found only a prefix of a message

engineVars == <<orch, result, joined, exit_code, output, now, deadline, ctrlc,
                sigint, intr_at, script, peer_end, stream, bc_tail, bc_next,
                fired, ev_q, msg_q, chain, complete, rec, wr, wr_cur,
                wr_shutdowns, written, rd, handles>>

frVars == <<fr_pc, fr_buf, fr_wire, fr_sent, fr_msgs, fr_closes, fr_out,
            fr_res, fr_partial>>

vars == <<engineVars, frVars>>

orchVars == <<orch, result, joined, exit_code, output, deadline, ctrlc>>
envVars  == <<now, sigint, intr_at, script, peer_end>>
recVars  == <<chain, complete, rec>>
wrVars   == <<wr, wr_cur, wr_shutdowns, written>>
rdVars   == <<rd, handles, stream>>

----------------------------------------------------------------------------
\* Data

MsgKinds == {"version", "verack", "ping"}
PeerEnds == {"open", "eof", "reset"}
Receivers == {"rec", "wr", "rd", "ext"}

RECURSIVE SeqsUpTo(_, _)
SeqsUpTo(S, n) ==
    IF n = 0 THEN {<<>>}
    ELSE LET shorter == SeqsUpTo(S, n - 1)
         IN  shorter \cup {Append(s, x) : s \in shorter, x \in S}

PeerScripts == SeqsUpTo(MsgKinds, MaxPeerMsgs)

\* verack_message (chain.rs:218-223), version_message (chain.rs:225-248):
\* the command of the message built.
verack_message == "verack"
version_message == "version"

\* Event::new (types.rs:220-227): the timestamp is taken at creation.
Event(name, direction, t) ==
    [name |-> name, dir |-> direction, time |-> t, pairs |-> <<>>]

\* Event::set_pair (types.rs:245-247)
set_pair(ev, key) == [ev EXCEPT !.pairs = Append(@, key)]

\* Instant::duration_since saturates at zero.
duration_since(later, earlier) == IF later >= earlier THEN later - earlier ELSE 0

\* Display for EventChain (types.rs:194-208): the total is the sum of the
\* gaps between consecutive events; the first event contributes zero.
RECURSIVE total_time_millis(_)
total_time_millis(events) ==
    IF Len(events) <= 1 THEN 0
    ELSE total_time_millis(SubSeq(events, 1, Len(events) - 1))
         + duration_since(events[Len(events)].time, events[Len(events) - 1].time)

\* Display for EventChain (types.rs:186-190): the status marker.
chain_status(is_complete) == IF is_complete THEN "HS_OK" ELSE "HS_TO"

\* Display for HandshakeResult (types.rs:119-136)
display_result(res, is_complete) ==
    IF res = "ok" THEN chain_status(is_complete) ELSE "HS_NOK"

----------------------------------------------------------------------------
\* tokio broadcast channel of capacity 1

\* Senders: shutdown_tx lives until perform_btc_handshake returns,
\* ev_shutdown_tx until the recorder returns.
bc_senders ==
    (IF orch \in {"done", "exited", "killed"} THEN {} ELSE {"orch"})
    \cup (IF rec = "running" THEN {"rec"} ELSE {})

bc_rx_count == Cardinality({r \in Receivers : bc_next[r] >= 0})

\* Receiver::recv: "pending", or the value it completes with.
bc_recv(r) ==
    LET behind == bc_tail - bc_next[r]
    IN  IF behind > BROADCAST_CAPACITY THEN "err_lagged"
        ELSE IF behind > 0 THEN "ok"
        ELSE IF bc_senders = {} THEN "err_closed"
        ELSE "pending"

recv_ready(r) == bc_next[r] >= 0 /\ bc_recv(r) # "pending"

\* Sender::send: fails when no receiver is subscribed.
bc_send_ok == bc_rx_count > 0

drop_rx(r) == [bc_next EXCEPT ![r] = -1]

Alive == orch \notin {"killed", "exited"}

----------------------------------------------------------------------------
\* Initial state: perform_btc_handshake has executed chain.rs:32-58 (the
\* channel exists, the recorder is subscribed and spawned) and awaits the
\* connection at chain.rs:61-65.

----------------------------------------------------------------------------
\* Wire format and MessageReader::read_message (chain.rs:186-216)
\*
\* A byte is a small natural number.  A serialized message is a header of
\* two bytes, the command and the payload length, followed by the payload.
\* The payload of a Version is itself a well-formed Verack header, so that
\* a reader which loses track of message boundaries yields wrong messages.

Command == [version |-> 1, verack |-> 2, ping |-> 3]
Payload == [version |-> <<2, 0>>, verack |-> <<>>, ping |-> <<9>>]

\* serialize(&RawNetworkMessage), chain.rs:78
serialize(msg) ==
    <<Command[msg], Len(Payload[msg])>> \o Payload[msg]

RECURSIVE serialize_all(_)
serialize_all(msgs) ==
    IF msgs = <<>> THEN <<>>
    ELSE serialize(Head(msgs)) \o serialize_all(Tail(msgs))

\* deserialize_partial::<RawNetworkMessage>(&self.buffer), chain.rs:200:
\* Ok((message, count)) when the buffer starts with a whole message, an
\* error when it holds less than that.
deserialize_partial(buf) ==
    IF Len(buf) < 2 \/ Len(buf) < 2 + buf[2]
    THEN [ok |-> FALSE, msg |-> "none", count |-> 0]
    ELSE [ok |-> TRUE,
          msg |-> CHOOSE k \in MsgKinds : Command[k] = buf[1],
          count |-> 2 + buf[2]]

\* A reader that clears the buffer instead of advancing it.
advance_clear(buf, count) ==
    <<>>

\* self.buffer.advance(count), chain.rs:201
advance(buf, count) ==
    SubSeq(buf, count + 1, Len(buf))

\* A reader that reports the end of the stream whatever the buffer holds.
zero_read_result_always_eof(buf) ==
    "eof"

\* chain.rs:205-212: the outcome of a read of zero bytes.
zero_read_result(buf) ==
    IF buf = <<>> THEN "eof" ELSE "err_reset"

FrResults == {"none", "some", "eof", "err_reset", "err_io"}

\* The frame reader does not run (the engine reads whole messages).
FramerOff ==
    /\ fr_pc = "off"
    /\ fr_buf = <<>>
    /\ fr_wire = <<>>
    /\ fr_sent = <<>>
    /\ fr_msgs = <<>>
    /\ fr_closes = FALSE
    /\ fr_out = <<>>
    /\ fr_res = "none"
    /\ fr_partial = FALSE

----------------------------------------------------------------------------

\* The state at the first await of perform_btc_handshake (chain.rs:61).
EngineInit ==
    /\ orch = "connecting"
    /\ result = "none"
    /\ joined = FALSE
    /\ exit_code = "none"
    /\ output = "none"
    /\ now = 0
    /\ deadline = -1
    /\ ctrlc = "unregistered"
    /\ sigint = "none"
    /\ intr_at = "none"
    /\ script \in PeerScripts
    /\ peer_end \in PeerEnds
    /\ stream = script
    /\ bc_tail = 0
    /\ bc_next = [r \in Receivers |-> IF r = "rec" THEN 0 ELSE -1]
    /\ fired = <<>>
    /\ ev_q = <<>>
    /\ msg_q = <<>>
    /\ chain = <<>>
    /\ complete = FALSE
    /\ rec = "running"
    /\ wr = "unspawned"
    /\ wr_cur = "none"
    /\ wr_shutdowns = 0
    /\ written = <<>>
    /\ rd = "unspawned"
    /\ handles = <<>>

Init ==
    /\ EngineInit
    /\ FramerOff

----------------------------------------------------------------------------
\* Environment

\* Time passes.
Tick ==
    /\ UNCHANGED frVars
    /\ Alive
    /\ now < MaxTicks * TickMillis
    /\ now' = now + TickMillis
    /\ UNCHANGED <<orchVars, sigint, intr_at, script, peer_end, bc_tail,
                   bc_next, fired, ev_q, msg_q, recVars, wrVars, rdVars>>

\* The operator's interrupt (SIGINT).  tokio installs its handler when
\* signal::ctrl_c() is first polled (chain.rs:138); before that the default
\* disposition ends the process.  While the race of chain.rs:134-145 is on,
\* the ctrl_c future completes.  Afterwards the handler stays installed and
\* nothing listens to it.
Interrupt ==
    /\ UNCHANGED frVars
    /\ Alive
    /\ sigint = "none"
    /\ intr_at' = orch
    /\ IF ctrlc = "listening"
       THEN /\ sigint' = IF orch = "race" THEN "pending" ELSE "ignored"
            /\ UNCHANGED orch
       ELSE /\ sigint' = "killed"
            /\ orch' = "killed"
    /\ UNCHANGED <<result, joined, exit_code, output, deadline, ctrlc, now, script,
                   peer_end, bc_tail, bc_next, fired, ev_q, msg_q, recVars,
                   wrVars, rdVars>>

----------------------------------------------------------------------------
\* perform_btc_handshake: the orchestrator

\* chain.rs:61-126: the connection is established within the timeout; the
\* stream is split, the writer and the reader are subscribed and spawned.
ConnectOk ==
    /\ UNCHANGED frVars
    /\ orch = "connecting"
    /\ now < TIMEOUT_MILLISEC
    /\ orch' = "send_version"
    /\ bc_next' = [bc_next EXCEPT !["wr"] = bc_tail, !["rd"] = bc_tail]
    /\ wr' = "running"
    /\ rd' = "running"
    /\ UNCHANGED <<result, joined, exit_code, output, deadline, ctrlc, envVars,
                   stream, handles, bc_tail, fired, ev_q, msg_q,
                   recVars, wr_cur, wr_shutdowns, written>>

\* What perform_btc_handshake drops when it returns: its locals ev_tx,
\* msg_tx, shutdown_tx and ext_shutdown_shutdown_rx.
orch_return(res) ==
    /\ orch' = "done"
    /\ result' = res
    /\ bc_next' = drop_rx("ext")

\* chain.rs:65: TcpStream::connect fails (first `?` of `.await??` is the
\* Elapsed of the timeout, the second the io::Error).
ConnectErr ==
    /\ UNCHANGED frVars
    /\ orch = "connecting"
    /\ orch_return("err_connect_io")
    /\ UNCHANGED <<joined, exit_code, output, deadline, ctrlc, envVars, bc_tail, fired,
                   ev_q, msg_q, recVars, wrVars, rdVars>>

\* chain.rs:61-65: the timeout around the connection attempt elapses.
ConnectTimeout ==
    /\ UNCHANGED frVars
    /\ orch = "connecting"
    /\ now >= TIMEOUT_MILLISEC
    /\ orch_return("err_connect_elapsed")
    /\ UNCHANGED <<joined, exit_code, output, deadline, ctrlc, envVars, bc_tail, fired,
                   ev_q, msg_q, recVars, wrVars, rdVars>>

\* chain.rs:129-130: msg_tx.send(version_message)?
SendVersion ==
    /\ UNCHANGED frVars
    /\ orch = "send_version"
    /\ IF wr = "running"
       THEN /\ msg_q' = Append(msg_q, version_message)
            /\ orch' = "subscribe"
            /\ UNCHANGED <<result, bc_next>>
       ELSE /\ orch_return("err_send")
            /\ UNCHANGED msg_q
    /\ UNCHANGED <<joined, exit_code, output, deadline, ctrlc, envVars, bc_tail, fired,
                   ev_q, recVars, wrVars, rdVars>>

\* chain.rs:133-134: the orchestrator subscribes its own receiver and
\* enters select!, which creates the sleep and registers the ctrl_c listener
\* (registration may fail: the future then completes with an error).
EnterRace ==
    /\ UNCHANGED frVars
    /\ orch = "subscribe"
    /\ orch' = "race"
    /\ bc_next' = [bc_next EXCEPT !["ext"] = bc_tail]
    /\ deadline' = now + TIMEOUT_MILLISEC
    /\ ctrlc' \in {"listening", "error"}
    /\ UNCHANGED <<result, joined, exit_code, output, envVars, bc_tail, fired, ev_q,
                   msg_q, recVars, wrVars, rdVars>>

\* shutdown_tx.send(1)? of chain.rs:136 and chain.rs:140.
orch_broadcast(who) ==
    IF bc_send_ok
    THEN /\ bc_tail' = bc_tail + 1
         /\ fired' = Append(fired, who)
         /\ orch' = "joining"
         /\ UNCHANGED <<result, bc_next>>
    ELSE /\ orch_return("err_send")
         /\ UNCHANGED <<bc_tail, fired>>

\* chain.rs:135-137: the sleep expires.
Timeout ==
    /\ UNCHANGED frVars
    /\ orch = "race"
    /\ now >= deadline
    /\ orch_broadcast("timeout")
    /\ UNCHANGED <<joined, exit_code, output, deadline, ctrlc, envVars, ev_q, msg_q,
                   recVars, wrVars, rdVars>>

\* chain.rs:138-142: ctrl_c completes with Ok.
CtrlC ==
    /\ UNCHANGED frVars
    /\ orch = "race"
    /\ ctrlc = "listening"
    /\ sigint = "pending"
    /\ orch_broadcast("interrupt")
    /\ UNCHANGED <<joined, exit_code, output, deadline, ctrlc, envVars, ev_q, msg_q,
                   recVars, wrVars, rdVars>>

\* chain.rs:138-142: ctrl_c completes with Err: val.is_ok() is false and
\* nothing is broadcast.
CtrlCErr ==
    /\ UNCHANGED frVars
    /\ orch = "race"
    /\ ctrlc = "error"
    /\ orch' = "joining"
    /\ UNCHANGED <<result, joined, exit_code, output, deadline, ctrlc, envVars,
                   bc_tail, bc_next, fired, ev_q, msg_q, recVars, wrVars,
                   rdVars>>

\* chain.rs:144: a shutdown broadcast by a subsystem is received (its value,
\* Ok or Err, is ignored).
ExtRecv ==
    /\ UNCHANGED frVars
    /\ orch = "race"
    /\ recv_ready("ext")
    /\ orch' = "joining"
    /\ bc_next' = [bc_next EXCEPT !["ext"] = bc_tail]
    /\ UNCHANGED <<result, joined, exit_code, output, deadline, ctrlc, envVars,
                   bc_tail, fired, ev_q, msg_q, recVars, wrVars, rdVars>>

Finished(task) == task \notin {"unspawned", "running", "joining"}

\* chain.rs:149-153: writer first, reader second, recorder last.
fold_results(event_chain_res, message_writer_res, msg_reader_res) ==
    IF message_writer_res # "ok" THEN message_writer_res
    ELSE IF msg_reader_res # "ok" THEN msg_reader_res
    ELSE event_chain_res

\* chain.rs:147-153: try_join! of the three handles, then the fold.
Join ==
    /\ UNCHANGED frVars
    /\ orch = "joining"
    /\ Finished(rec) /\ Finished(wr) /\ Finished(rd)
    /\ joined' = TRUE
    /\ orch_return(fold_results(rec, wr, rd))
    /\ UNCHANGED <<exit_code, output, deadline, ctrlc, envVars, bc_tail, fired,
                   ev_q, msg_q, recVars, wrVars, rdVars>>

\* main.rs:8-12: perform_handshake wraps whatever perform_btc_handshake
\* returned (Ok or Err) into a HandshakeResult and returns Ok of it.
perform_handshake(res) == "Ok"

\* main.rs:20-26: exit(1) only in the Err arm.
main_exit_code(handshake) == IF handshake = "Ok" THEN 0 ELSE 1

\* main.rs:17-27
Main ==
    /\ UNCHANGED frVars
    /\ orch = "done"
    /\ orch' = "exited"
    /\ output' = display_result(result, complete)
    /\ exit_code' = main_exit_code(perform_handshake(result))
    /\ UNCHANGED <<result, joined, deadline, ctrlc, envVars, bc_tail, bc_next, fired,
                   ev_q, msg_q, recVars, wrVars, rdVars>>

----------------------------------------------------------------------------
\* The event chain task (chain.rs:39-58)

\* A chain that stores the newest event first.
add_front(events, ev) == <<ev>> \o events

\* EventChain::add (types.rs:155-157)
add(events, ev) == Append(events, ev)

\* A completion test that also succeeds on every later append.
reached_expected_or_more(events) == Len(events) >= EXPECTED_HANDSHAKE_MESSAGES

\* chain.rs:53: the completion test made after every append.
reached_expected(events) == Len(events) = EXPECTED_HANDSHAKE_MESSAGES

\* chain.rs:43-45 and 53-56: an event is received and appended; when the
\* chain then holds EXPECTED_HANDSHAKE_MESSAGES events it is marked complete
\* and the shutdown is broadcast (`?` returns the send error).
RecorderEvent ==
    /\ UNCHANGED frVars
    /\ Alive
    /\ rec = "running"
    /\ ev_q # <<>>
    /\ chain' = add(chain, Head(ev_q))
    /\ IF reached_expected(chain')
       THEN /\ complete' = TRUE
            /\ IF bc_send_ok
               THEN /\ bc_tail' = bc_tail + 1
                    /\ fired' = Append(fired, "recorder")
                    /\ ev_q' = Tail(ev_q)
                    /\ UNCHANGED <<rec, bc_next>>
               ELSE /\ rec' = "err_send"
                    /\ ev_q' = <<>>
                    /\ bc_next' = drop_rx("rec")
                    /\ UNCHANGED <<bc_tail, fired>>
       ELSE /\ ev_q' = Tail(ev_q)
            /\ UNCHANGED <<complete, rec, bc_tail, bc_next, fired>>
    /\ UNCHANGED <<orchVars, envVars, msg_q, wrVars, rdVars>>

\* chain.rs:46-51: the shutdown is received; the task returns the chain on
\* Ok and an error on RecvError.  Returning drops ev_rx and its queue.
RecorderShutdown ==
    /\ UNCHANGED frVars
    /\ Alive
    /\ rec = "running"
    /\ recv_ready("rec")
    /\ rec' = bc_recv("rec")
    /\ bc_next' = drop_rx("rec")
    /\ ev_q' = <<>>
    /\ UNCHANGED <<orchVars, envVars, bc_tail, fired, msg_q, chain, complete,
                   wrVars, rdVars>>

----------------------------------------------------------------------------
\* The message writer task (chain.rs:73-91)

\* A writer that publishes the OUT event of a message twice.
writer_out_events_twice(msg, t) ==
    <<Event(msg, "OUT", t), Event(msg, "OUT", t)>>

\* chain.rs:80: the events sent on msg_writer_ev_tx once write_all of msg
\* has returned Ok.
writer_out_events(msg, t) ==
    <<Event(msg, "OUT", t)>>

\* chain.rs:76-78: a queued message is taken; write_all is awaited next.
WriterRecvMsg ==
    /\ UNCHANGED frVars
    /\ Alive
    /\ wr = "running"
    /\ wr_cur = "none"
    /\ msg_q # <<>>
    /\ wr_cur' = Head(msg_q)
    /\ msg_q' = Tail(msg_q)
    /\ UNCHANGED <<orchVars, envVars, bc_tail, bc_next, fired, ev_q, recVars,
                   wr, wr_shutdowns, written, rdVars>>

\* chain.rs:79-80: write_all succeeded; the OUT event is published, and the
\* task returns the SendError when the recorder's ev_rx is gone.
WriterWritten ==
    /\ UNCHANGED frVars
    /\ Alive
    /\ wr = "running"
    /\ wr_cur # "none"
    /\ wr_cur' = "none"
    /\ written' = Append(written, wr_cur)
    /\ IF rec = "running"
       THEN /\ ev_q' = ev_q \o writer_out_events(wr_cur, now)
            /\ UNCHANGED <<wr, bc_next, msg_q>>
       ELSE /\ wr' = "err_send"
            /\ bc_next' = drop_rx("wr")
            /\ msg_q' = <<>>
            /\ UNCHANGED ev_q
    /\ UNCHANGED <<orchVars, envVars, bc_tail, fired, recVars, wr_shutdowns,
                   rdVars>>

\* chain.rs:79: write_all fails (the peer has closed the connection).
WriterWriteErr ==
    /\ UNCHANGED frVars
    /\ Alive
    /\ wr = "running"
    /\ wr_cur # "none"
    /\ peer_end # "open"
    /\ wr_cur' = "none"
    /\ wr' = "err_io"
    /\ bc_next' = drop_rx("wr")
    /\ msg_q' = <<>>
    /\ UNCHANGED <<orchVars, envVars, bc_tail, fired, ev_q, recVars,
                   wr_shutdowns, written, rdVars>>

\* chain.rs:82-88: the shutdown is received; the write half is shut down
\* (an io error of the shutdown returns first), then Ok or the RecvError.
WriterShutdown ==
    /\ UNCHANGED frVars
    /\ Alive
    /\ wr = "running"
    /\ wr_cur = "none"
    /\ recv_ready("wr")
    /\ wr_shutdowns' = wr_shutdowns + 1
    /\ \/ wr' = bc_recv("wr")
       \/ peer_end # "open" /\ wr' = "err_io"
    /\ bc_next' = drop_rx("wr")
    /\ msg_q' = <<>>
    /\ UNCHANGED <<orchVars, envVars, bc_tail, fired, ev_q, recVars, wr_cur,
                   written, rdVars>>

----------------------------------------------------------------------------
\* handle_message (chain.rs:156-184), one spawned task per message

\* Mutant of handle_message_event: the fallback arm publishes an IN event too.
handle_message_event_every(msg, t) ==
    IF msg = "version"
    THEN <<set_pair(set_pair(Event(msg, "IN", t), "vers"), "user-agent")>>
    ELSE <<Event(msg, "IN", t)>>

\* The event handle_message publishes for a message: <<>> when none.
handle_message_event(msg, t) ==
    CASE msg = "verack"  -> <<Event(msg, "IN", t)>>
      [] msg = "version" ->
             <<set_pair(set_pair(Event(msg, "IN", t), "vers"), "user-agent")>>
      [] OTHER -> <<>>

\* A handler that answers every message with a Verack.
handle_message_reply_every(msg) ==
    <<verack_message>>

\* The messages handle_message enqueues for the writer.
handle_message_reply(msg) ==
    IF msg = "version" THEN <<verack_message>> ELSE <<>>

\* chain.rs:161-172 and 176-182: the match arm is entered; the IN event, if
\* any, is published (`?` returns the SendError).
HandleDispatch(i) ==
    /\ UNCHANGED frVars
    /\ Alive
    /\ handles[i].pc = "start"
    /\ LET msg == handles[i].msg
           evs == handle_message_event(msg, now)
       IN  IF evs = <<>>
           THEN /\ handles' = [handles EXCEPT ![i].pc = "done", ![i].res = "ok"]
                /\ UNCHANGED ev_q
           ELSE IF rec # "running"
           THEN /\ handles' = [handles EXCEPT ![i].pc = "done",
                                               ![i].res = "err_send"]
                /\ UNCHANGED ev_q
           ELSE /\ ev_q' = ev_q \o evs
                /\ handles' = IF handle_message_reply(msg) = <<>>
                              THEN [handles EXCEPT ![i].pc = "done",
                                                   ![i].res = "ok"]
                              ELSE [handles EXCEPT ![i].pc = "reply"]
    /\ UNCHANGED <<orchVars, envVars, bc_tail, bc_next, fired, msg_q, recVars,
                   wrVars, rd, stream>>

\* chain.rs:173-174: the Verack reply is enqueued for the writer.
HandleReply(i) ==
    /\ UNCHANGED frVars
    /\ Alive
    /\ handles[i].pc = "reply"
    /\ IF wr = "running"
       THEN /\ msg_q' = msg_q \o handle_message_reply(handles[i].msg)
            /\ handles' = [handles EXCEPT ![i].pc = "done", ![i].res = "ok"]
       ELSE /\ handles' = [handles EXCEPT ![i].pc = "done",
                                           ![i].res = "err_send"]
            /\ UNCHANGED msg_q
    /\ UNCHANGED <<orchVars, envVars, bc_tail, bc_next, fired, ev_q, recVars,
                   wrVars, rd, stream>>

----------------------------------------------------------------------------
\* The message reader task (chain.rs:96-126) with MessageReader::read_message
\* (chain.rs:198-215)

\* chain.rs:103-109: read_message yields the next message of the peer and a
\* handle_message task is spawned for it.
ReaderMessage ==
    /\ UNCHANGED frVars
    /\ Alive
    /\ rd = "running"
    /\ stream # <<>>
    /\ handles' = Append(handles, [msg |-> Head(stream), pc |-> "start",
                                   res |-> "none"])
    /\ stream' = Tail(stream)
    /\ UNCHANGED <<orchVars, envVars, bc_tail, bc_next, fired, ev_q, msg_q,
                   recVars, wrVars, rd>>

\* chain.rs:205-207 and 105-110: the stream is closed and the buffer empty:
\* Ok(None), nothing is spawned and the loop goes on.
ReaderEof ==
    /\ Alive
    /\ rd = "running"
    /\ stream = <<>>
    /\ peer_end = "eof"
    /\ UNCHANGED vars

\* chain.rs:208-212 and 111: the stream is closed in the middle of a
\* message: the task returns the connection-reset error.
ReaderReset ==
    /\ UNCHANGED frVars
    /\ Alive
    /\ rd = "running"
    /\ stream = <<>>
    /\ peer_end = "reset"
    /\ rd' = "err_reset"
    /\ bc_next' = drop_rx("rd")
    /\ UNCHANGED <<orchVars, envVars, bc_tail, fired, ev_q, msg_q, recVars,
                   wrVars, handles, stream>>

\* chain.rs:114-122: the shutdown is received: on Ok the task goes on to
\* await its handles, on RecvError it returns the error.
ReaderShutdown ==
    /\ UNCHANGED frVars
    /\ Alive
    /\ rd = "running"
    /\ recv_ready("rd")
    /\ IF bc_recv("rd") = "ok"
       THEN /\ rd' = "joining"
            /\ bc_next' = [bc_next EXCEPT !["rd"] = bc_tail]
       ELSE /\ rd' = bc_recv("rd")
            /\ bc_next' = drop_rx("rd")
    /\ UNCHANGED <<orchVars, envVars, bc_tail, fired, ev_q, msg_q, recVars,
                   wrVars, handles, stream>>

\* chain.rs:118-119: try_join_all over the JoinHandles fails on a JoinError
\* only; handle_message does not panic, so every handle joins with Ok(_) and
\* the Result<(), HSError> inside is not looked at.
try_join_all(hs) == "ok"

ReaderJoin ==
    /\ UNCHANGED frVars
    /\ Alive
    /\ rd = "joining"
    /\ \A i \in DOMAIN handles : handles[i].pc = "done"
    /\ rd' = try_join_all(handles)
    /\ bc_next' = drop_rx("rd")
    /\ UNCHANGED <<orchVars, envVars, bc_tail, fired, ev_q, msg_q, recVars,
                   wrVars, handles, stream>>

----------------------------------------------------------------------------
\* MessageReader::read_message (chain.rs:198-215), byte by byte

\* The peer serializes fr_msgs; the stream delivers a prefix of these bytes
\* (all of them, or a stream cut inside or between messages), in reads of
\* any sizes, and then stays open or is closed.  The engine is at rest.
FramerInit ==
    /\ EngineInit
    /\ script = <<>>
    /\ peer_end = "open"
    /\ fr_msgs \in PeerScripts
    /\ fr_sent \in {SubSeq(serialize_all(fr_msgs), 1, n) :
                        n \in 0..Len(serialize_all(fr_msgs))}
    /\ fr_wire = fr_sent
    /\ fr_closes \in BOOLEAN
    /\ fr_pc = "idle"
    /\ fr_buf = <<>>
    /\ fr_out = <<>>
    /\ fr_res = "none"
    /\ fr_partial = FALSE

\* chain.rs:101: the reader loop calls read_message again, unless the last
\* call returned an error (chain.rs:111 returns it).
FrCall ==
    /\ fr_pc = "idle"
    /\ fr_res \notin {"err_reset", "err_io"}
    /\ fr_pc' = "parse"
    /\ UNCHANGED <<engineVars, fr_buf, fr_wire, fr_sent, fr_msgs, fr_closes,
                   fr_out, fr_res, fr_partial>>

\* chain.rs:200-203: a whole message at the head of the buffer is returned
\* and its bytes are removed; otherwise the stream is read.
FrParse ==
    /\ fr_pc = "parse"
    /\ LET r == deserialize_partial(fr_buf)
       IN  IF r.ok
           THEN /\ fr_buf' = advance(fr_buf, r.count)
                /\ fr_out' = Append(fr_out, r.msg)
                /\ fr_res' = "some"
                /\ fr_pc' = "idle"
                /\ UNCHANGED fr_partial
           ELSE /\ fr_pc' = "read"
                /\ fr_partial' = (fr_partial \/ fr_buf # <<>>)
                /\ UNCHANGED <<fr_buf, fr_out, fr_res>>
    /\ UNCHANGED <<engineVars, fr_wire, fr_sent, fr_msgs, fr_closes>>

\* chain.rs:205: read_buf appends n > 0 bytes to the buffer.
FrRead(n) ==
    /\ fr_pc = "read"
    /\ n \in 1..Len(fr_wire)
    /\ fr_buf' = fr_buf \o SubSeq(fr_wire, 1, n)
    /\ fr_wire' = SubSeq(fr_wire, n + 1, Len(fr_wire))
    /\ fr_pc' = "parse"
    /\ UNCHANGED <<engineVars, fr_sent, fr_msgs, fr_closes, fr_out, fr_res,
                   fr_partial>>

\* chain.rs:205-212: read_buf returns 0, the peer has closed the stream.
FrReadZero ==
    /\ fr_pc = "read"
    /\ fr_wire = <<>>
    /\ fr_closes
    /\ fr_res' = zero_read_result(fr_buf)
    /\ fr_pc' = "idle"
    /\ UNCHANGED <<engineVars, fr_buf, fr_wire, fr_sent, fr_msgs, fr_closes,
                   fr_out, fr_partial>>

\* chain.rs:205: read_buf fails and `?` returns the io error.
FrReadErr ==
    /\ fr_pc = "read"
    /\ fr_res' = "err_io"
    /\ fr_pc' = "idle"
    /\ UNCHANGED <<engineVars, fr_buf, fr_wire, fr_sent, fr_msgs, fr_closes,
                   fr_out, fr_partial>>

FramerNext ==
    \/ FrCall
    \/ FrParse
    \/ \E n \in 1..Len(fr_wire) : FrRead(n)
    \/ FrReadZero
    \/ FrReadErr

FramerSpec == FramerInit /\ [][FramerNext]_vars

----------------------------------------------------------------------------

Next ==
    \/ Tick
    \/ Interrupt
    \/ ConnectOk
    \/ ConnectErr
    \/ ConnectTimeout
    \/ SendVersion
    \/ EnterRace
    \/ Timeout
    \/ CtrlC
    \/ CtrlCErr
    \/ ExtRecv
    \/ Join
    \/ Main
    \/ RecorderEvent
    \/ RecorderShutdown
    \/ WriterRecvMsg
    \/ WriterWritten
    \/ WriterWriteErr
    \/ WriterShutdown
    \/ \E i \in DOMAIN handles : HandleDispatch(i)
    \/ \E i \in DOMAIN handles : HandleReply(i)
    \/ ReaderMessage
    \/ ReaderEof
    \/ ReaderReset
    \/ ReaderShutdown
    \/ ReaderJoin

Spec == Init /\ [][Next]_vars

TypeOK ==
    /\ orch \in {"connecting", "send_version", "subscribe", "race", "joining",
                 "done", "exited", "killed"}
    /\ now \in 0..(MaxTicks * TickMillis)
    /\ bc_tail \in 0..2
    /\ wr_shutdowns \in 0..1
    /\ Len(chain) <= 2 * MaxPeerMsgs + 1

----------------------------------------------------------------------------
\* Vocabulary of the properties

\* Number of events of the chain with this direction and name.
Count(direction, name) ==
    Cardinality({i \in DOMAIN chain :
                    chain[i].dir = direction /\ chain[i].name = name})

\* Positions of the chain holding such an event.
Positions(direction, name) ==
    {i \in DOMAIN chain : chain[i].dir = direction /\ chain[i].name = name}

Returned == orch \in {"done", "exited"}
Connected == wr # "unspawned"
ConnectErrors == {"err_connect_io", "err_connect_elapsed"}
LaggedSomewhere == rec = "err_lagged" \/ wr = "err_lagged" \/ rd = "err_lagged"

----------------------------------------------------------------------------
\* C1: whenever the recorder returns a chain whose completion flag is true
\* the chain holds exactly 4 events, and the flag of a returned chain is true
\* if and only if exactly 4 events have been recorded.
C1_CompleteIffExactlyFour ==
    rec = "ok" => (complete <=> Len(chain) = EXPECTED_HANDSHAKE_MESSAGES)

\* C2: broadcasting the shutdown more than once never makes the recorder,
\* the writer or the reader return an error, and the writer never shuts the
\* write half down more than once.
C2_RepeatedShutdownHarmless ==
    /\ Len(fired) >= 2 => ~LaggedSomewhere
    /\ wr_shutdowns <= 1

\* C3: connection made, the peer sends one Version and never a Verack, the
\* timeout fires: the run returns Ok with an incomplete chain holding OUT
\* version and IN version, plus possibly OUT verack.  Stated of the runs in
\* which OUT version and IN version did reach the chain.
C3_VersionOnlyTimeout ==
    (/\ Returned /\ Connected
     /\ script = <<"version">> /\ peer_end = "open"
     /\ "timeout" \in {fired[i] : i \in DOMAIN fired}
     /\ Count("OUT", "version") = 1
     /\ Count("IN", "version") = 1)
    => /\ result = "ok"
       /\ ~complete
       /\ Count("OUT", "verack") <= 1
       /\ Len(chain) = 2 + Count("OUT", "verack")

\* C4: the peer answers Version then Verack and the handshake completes
\* before the timeout: the run is a success with exit code 0, the chain is
\* complete and holds exactly OUT version, IN version, OUT verack, IN verack,
\* with IN verack after IN version.
C4_VersionVerackInOrder ==
    (/\ orch = "exited"
     /\ script = <<"version", "verack">> /\ peer_end = "open"
     /\ fired = <<"recorder">>)
    => /\ result = "ok" /\ exit_code = 0
       /\ complete
       /\ Len(chain) = 4
       /\ Count("OUT", "version") = 1 /\ Count("IN", "version") = 1
       /\ Count("OUT", "verack") = 1 /\ Count("IN", "verack") = 1
       /\ \A i \in Positions("IN", "verack") :
              \A j \in Positions("IN", "version") : j < i

\* C5: when the connection attempt fails or times out the run fails with the
\* connection error, the output line is the failure line and the exit code
\* is not zero.
C5_ConnectFailureExitCode ==
    (orch = "exited" /\ ~Connected)
    => /\ result \in ConnectErrors
       /\ output = "HS_NOK"
       /\ exit_code # 0

\* C6: when perform_btc_handshake returns the connection error no recorder,
\* writer or reader task exists or is left running.
C6_NoTaskOnConnectFailure ==
    (orch = "done" /\ result \in ConnectErrors)
    => /\ rec # "running"
       /\ wr = "unspawned"
       /\ rd = "unspawned"

\* C7: after the three tasks are joined the run fails whenever the writer or
\* the reader reported an error, and in every other case it succeeds with
\* the chain of the recorder.
C7_JoinFold ==
    (Returned /\ joined)
    => IF wr # "ok" \/ rd # "ok" THEN result # "ok" ELSE result = "ok"

\* C8: a message of the peer that is neither Version nor Verack records no
\* event, fails no task, and its dispatch leaves the queues, the chain, the
\* tasks and the shutdown channel as they were.
C8_UnrelatedMessageIgnored ==
    /\ [](/\ \A i \in DOMAIN chain : chain[i].name \in {"version", "verack"}
          /\ \A i \in DOMAIN ev_q : ev_q[i].name \in {"version", "verack"}
          /\ \A i \in DOMAIN handles :
                 handles[i].msg = "ping" => handles[i].res \in {"none", "ok"})
    /\ [][\A i \in DOMAIN handles :
              (handles[i].msg = "ping" /\ handles'[i] # handles[i])
              => /\ handles'[i] = [msg |-> "ping", pc |-> "done", res |-> "ok"]
                 /\ UNCHANGED <<orchVars, envVars, bc_tail, bc_next, fired,
                                ev_q, msg_q, recVars, wrVars, rd, stream>>]_vars

\* C8 witness: a run whose peer sent an unrelated message has dispatched it
\* and has returned Ok with the events of the rest of the handshake.
C8_Witness ==
    /\ orch = "exited" /\ result = "ok"
    /\ \E i \in DOMAIN handles : handles[i].msg = "ping" /\ handles[i].pc = "done"
    /\ Count("IN", "version") = 1 /\ Count("OUT", "verack") = 1

\* C9: connection made, the peer never sends anything, the timeout fires:
\* the returned chain is incomplete and its reported total time is at least
\* the timeout.
C9_SilentPeerTotalTime ==
    (/\ Returned /\ Connected
     /\ script = <<>> /\ peer_end = "open"
     /\ "timeout" \in {fired[i] : i \in DOMAIN fired}
     /\ result = "ok")
    => /\ ~complete
       /\ total_time_millis(chain) >= TIMEOUT_MILLISEC

\* C10: an interrupt delivered at any point of the run leads to the shutdown
\* being broadcast: no run that received one ends without a broadcast.
C10_InterruptBroadcasts ==
    (sigint # "none" /\ orch \in {"killed", "exited"}) => fired # <<>>

----------------------------------------------------------------------------
\* Properties of the frame reader (FramerSpec)

\* The stream ended on a message boundary.
CleanClose ==
    \E k \in 0..Len(fr_msgs) : fr_sent = serialize_all(SubSeq(fr_msgs, 1, k))

\* C11: when a stream read returns zero bytes, read_message returns the end
\* of the stream if the buffer is empty and the connection-reset error if
\* it is not: the end of the stream is never returned while unparsed bytes
\* remain, and a stream closed on a message boundary never gives the error.
C11_ZeroByteRead ==
    /\ fr_res = "eof" => fr_buf = <<>> /\ fr_wire = <<>>
    /\ fr_res = "err_reset" => fr_buf # <<>> /\ fr_wire = <<>>
    /\ CleanClose => fr_res # "err_reset"

\* C11 witness: a message was returned, then the peer closed the stream
\* inside the next one and the zero-byte read gave the reset error.
C11_Witness ==
    /\ fr_res = "err_reset"
    /\ Len(fr_out) >= 1
    /\ fr_buf # <<>>

\* C12: for every sequence of serialized messages and every split of their
\* bytes into reads, the messages returned so far are the first messages
\* sent, once each and in order; the bytes of the returned messages, the
\* buffer and the undelivered bytes together are exactly the bytes sent (a
\* buffered prefix of a message is not consumed, and a returned message
\* takes exactly its bytes out of the buffer); no whole message is left
\* in the buffer when the stream is read; and at the end of a stream that
\* carried all the bytes, all the messages have been returned.
C12_FramingExact ==
    /\ Len(fr_out) <= Len(fr_msgs)
    /\ fr_out = SubSeq(fr_msgs, 1, Len(fr_out))
    /\ serialize_all(fr_out) \o fr_buf \o fr_wire = fr_sent
    /\ (fr_pc = "read" /\ Len(fr_out) < Len(fr_msgs))
       => Len(fr_buf) < Len(serialize(fr_msgs[Len(fr_out) + 1]))
    /\ (fr_res = "eof" /\ fr_sent = serialize_all(fr_msgs))
       => fr_out = fr_msgs

\* C12 witness: two messages were sent, a parse attempt saw only a prefix
\* of a message, and both messages have been returned before the end of
\* the stream.
C12_Witness ==
    /\ Len(fr_msgs) = 2
    /\ fr_partial
    /\ fr_out = fr_msgs
    /\ fr_res = "eof"

----------------------------------------------------------------------------
\* Properties of the dispatch tasks, the reader and the shutdown channel

\* The IN event handle_message publishes for a Version received at time t.
InVersionEvent(t) ==
    [name |-> "version", dir |-> "IN", time |-> t,
     pairs |-> <<"vers", "user-agent">>]

C14_DispatchAwaited ==
    Finished(rd) =>
       /\ \A i \in DOMAIN handles : handles[i].pc = "done"
       /\ (\E i \in DOMAIN handles : handles[i].res # "ok") => rd # "ok"

\* C15: no shutdown value is broadcast before each of the four receivers
\* (recorder, writer, reader, trigger race) has subscribed.
C15_SubscribedBeforeAnyBroadcast ==
    bc_tail > 0 => orch \notin {"connecting", "send_version", "subscribe"}

\* C16: a writer or reader that has returned an error of its own (failed
\* write, failed event send, connection reset) has broadcast the shutdown:
\* some shutdown value has been sent by then.
C16_TerminalUnitBroadcasts ==
    (wr \in {"err_io", "err_send"} \/ rd = "err_reset") => bc_tail > 0

\* The names of the OUT events published so far, in publication order.
OutNames ==
    LET outs == SelectSeq(chain \o ev_q, LAMBDA e : e.dir = "OUT")
    IN  [i \in DOMAIN outs |-> outs[i].name]

CountUpTo(direction, name, n) ==
    Cardinality({i \in 1..n : chain[i].dir = direction /\ chain[i].name = name})

\* C18: a Verack is enqueued only by the second step of a Version's
\* dispatch, which follows the step that published its IN event; and in
\* every chain, returned or not, every prefix holds at least as many IN
\* Version events as OUT Verack events, so that every OUT Verack is preceded
\* by an IN Version.
C18_VerackAfterVersion ==
    /\ [](\A n \in DOMAIN chain :
             /\ CountUpTo("OUT", "verack", n) <= CountUpTo("IN", "version", n)
             /\ (chain[n].dir = "OUT" /\ chain[n].name = "verack")
                => \E j \in 1..(n - 1) :
                       chain[j].dir = "IN" /\ chain[j].name = "version")
    /\ [][/\ (Len(msg_q') > Len(msg_q) /\ msg_q'[Len(msg_q')] = "verack")
             => \E i \in DOMAIN handles :
                    /\ handles[i].msg = "version"
                    /\ handles[i].pc = "reply" /\ handles'[i].pc = "done"
          /\ \A i \in DOMAIN handles :
                (handles[i].pc # "reply" /\ handles'[i].pc = "reply")
                => /\ handles[i].msg = "version"
                   /\ ev_q' = Append(ev_q, InVersionEvent(now))]_vars

\* C18 witness: a returned chain holding an OUT Verack.
C18_Witness ==
    /\ orch = "exited" /\ result = "ok"
    /\ Count("OUT", "verack") >= 1
    /\ Count("IN", "version") >= 1

\* A step of the program itself: any step but the passing of time, the
\* operator's interrupt and the reader's idle loop on a closed stream.
ProgramStep ==
    \/ ConnectOk \/ ConnectErr \/ ConnectTimeout \/ SendVersion \/ EnterRace
    \/ Timeout \/ CtrlC \/ CtrlCErr \/ ExtRecv \/ Join \/ Main
    \/ RecorderEvent \/ RecorderShutdown
    \/ WriterRecvMsg \/ WriterWritten \/ WriterWriteErr \/ WriterShutdown
    \/ \E i \in DOMAIN handles : HandleDispatch(i)
    \/ \E i \in DOMAIN handles : HandleReply(i)
    \/ ReaderMessage \/ ReaderReset \/ ReaderShutdown \/ ReaderJoin

\* C19: once the connection is established the run cannot get stuck before
\* it has produced its result: in every state short of that, either the
\* program can take a step or the sleep of the trigger race is still
\* pending (and its expiry will broadcast the shutdown).
C19_ConnectedRunTerminates ==
    (Connected /\ orch \notin {"exited", "killed"})
    => \/ ENABLED ProgramStep
       \/ orch = "race" /\ now < deadline

\* C20: while the recorder is in its loop the completion flag is true
\* exactly when the chain holds at least EXPECTED_HANDSHAKE_MESSAGES events;
\* the chain changes only by appending the head of the event queue; the
\* flag never reverts; the recorder broadcasts at most once, on the append
\* that brings the length to exactly EXPECTED_HANDSHAKE_MESSAGES; and that
\* broadcast never fails.
C20_RecorderInvariant ==
    /\ [](/\ rec = "running"
             => (complete <=> Len(chain) >= EXPECTED_HANDSHAKE_MESSAGES)
          /\ Cardinality({i \in DOMAIN fired : fired[i] = "recorder"}) <= 1
          /\ rec # "err_send")
    /\ [][/\ chain' # chain
             => ev_q # <<>> /\ chain' = Append(chain, Head(ev_q))
          /\ complete => complete'
          /\ (Len(fired') > Len(fired) /\ fired'[Len(fired')] = "recorder")
             => /\ Len(chain) = EXPECTED_HANDSHAKE_MESSAGES - 1
                /\ Len(chain') = EXPECTED_HANDSHAKE_MESSAGES
                /\ bc_rx_count >= 1]_vars

\* C20 witness: the recorder, back in its loop after the completing append
\* and its one broadcast, has appended a fifth event.
C20_Witness ==
    /\ rec = "running"
    /\ complete
    /\ Len(chain) = EXPECTED_HANDSHAKE_MESSAGES + 1
    /\ fired = <<"recorder">>

====
